---- MODULE Spec2Model ----
(***************************************************************************)
(* A model of the workflow demos of Agentic-ai-notes:                      *)
(*   - the strategic executor graph   (06_strategic_executor.py)           *)
(*   - the checkpointed chatbot graph (08_memory_langgraph.py, example 4)  *)
(*   - the long-term knowledge store  (08_memory_langgraph.py, example 5)  *)
(*   - the state/delta merge the nodes and the executor rely on            *)
(* The language model is an external collaborator: each call returns one   *)
(* of a small set of texts, or raises.                                     *)
(***************************************************************************)
EXTENDS Integers, Sequences, FiniteSets, TLC

VARIABLES
    sNode,        \* strategic graph: node about to run, or "idle" / "END" / "failed"
    sState,       \* strategic graph: the StrategicState of the run
    sVisited,     \* strategic graph: names of the nodes executed so far, in order
    run,          \* chatbot graph: per thread, the invocation in progress
    checkpoints,  \* chatbot graph: per thread, the snapshots saved, oldest first
    written,      \* chatbot graph: per thread, every message given to or produced on it
    kStore,       \* knowledge store: (namespace, key) -> <<>> or <<value>>
    kLog,         \* knowledge store: the puts made so far, in order
    kGot,         \* knowledge store: the last get: <<>> or <<[ns, key, result, at]>>
    mS,           \* merge: the starting state
    mD1,          \* merge: the first delta
    mD2,          \* merge: the second delta
    mAcc,         \* merge: the state merged so far
    mPc,          \* merge: number of deltas merged
    wNode,        \* plan/write graph: node about to run, or "idle" / END / "failed"
    wState,       \* plan/write graph: the WritingState of the run
    wVisited,     \* plan/write graph: names of the nodes executed so far, in order
    rState,       \* direct call: the state should_adapt / adapt_plan_node is given
    rResult,      \* direct call: what the call did
    tExecutor,    \* tool-use demo: agent_executor, "agent" or "None"
    tTasks,       \* tool-use demo: per submitted coroutine, where it is and what it did
    tGather,      \* tool-use demo: the result list of asyncio.gather, <<>> until it returns
    tFinished,    \* tool-use demo: the coroutines that have finished, in the order they did
    dPc,          \* tool dispatch: "start", "loop", "direct", "done" or "except"
    dCalls,       \* tool dispatch: response.tool_calls
    dIndex,       \* tool dispatch: position of the tool call the loop is at
    dLog,         \* tool dispatch: per tool call handled, what was done with it
    hLists,       \* object heap: the list objects, by identity, with their items
    hDicts,       \* object heap: the dict objects; messages holds a list identity
    hState,       \* object heap: identity of the state dict a node receives, 0 before invoke
    hRet,         \* object heap: identity of the dict the node returned, 0 if none
    hNode,        \* object heap: "idle", the node to run, END or "failed"
    lSeen,        \* long-term store: what the last load_memory_node call or search saw
    qQuery,       \* search tool: the query search_information is called with
    qResult,      \* search tool: <<>> before the call, then <<the string returned>>
    hPc           \* object heap: "call" (node next), "merge" (write next), "route" (router next)

strategicVars  == <<sNode, sState, sVisited>>
checkpointVars == <<run, checkpoints, written>>
storeVars      == <<kStore, kLog, kGot>>
mergeVars      == <<mS, mD1, mD2, mAcc, mPc>>
writingVars    == <<wNode, wState, wVisited>>
routeVars      == <<rState, rResult>>
toolUseVars    == <<tExecutor, tTasks, tGather, tFinished>>
dispatchVars   == <<dPc, dCalls, dIndex, dLog>>
heapVars       == <<hLists, hDicts, hState, hRet, hNode, hPc>>
loadVars       == <<lSeen>>
searchVars     == <<qQuery, qResult>>
extVars        == <<writingVars, routeVars, toolUseVars, dispatchVars, heapVars, loadVars, searchVars>>
vars == <<sNode, sState, sVisited, run, checkpoints, written,
          kStore, kLog, kGot, mS, mD1, mD2, mAcc, mPc, extVars>>

----------------------------------------------------------------------------
(* Bounds *)

\* invocations made on one thread
MaxInvokes == 2

\* puts made on the knowledge store
MaxPuts == 3

\* tool calls in one model response
MaxToolCalls == 3

\* leading characters of a query that may be in upper case
MaxCased == 4

----------------------------------------------------------------------------
(* Texts.  A text is a sequence of tokens: single characters where the    *)
(* code looks inside the text, whole fragments elsewhere.                 *)

Upper == <<"A","B","C","D","E","F","G","H","I","J","K","L","M",
           "N","O","P","Q","R","S","T","U","V","W","X","Y","Z">>

Lower == <<"a","b","c","d","e","f","g","h","i","j","k","l","m",
           "n","o","p","q","r","s","t","u","v","w","x","y","z">>

\* str.lower() on one character
LowerChar(c) ==
    IF \E i \in DOMAIN Upper : Upper[i] = c
    THEN Lower[CHOOSE i \in DOMAIN Upper : Upper[i] = c]
    ELSE c

\* str.lower()
lower(t) == [i \in DOMAIN t |-> LowerChar(t[i])]

\* Python's  word in text  on strings: substring test
Contains(word, text) ==
    \E i \in 0..(Len(text) - Len(word)) :
        SubSeq(text, i + 1, i + Len(word)) = word

\* the words evaluate_plan_node scans the evaluation for
KEYWORDS ==
    << <<"i","m","p","r","o","v","e">>,
       <<"w","e","a","k">>,
       <<"m","i","s","s","i","n","g">>,
       <<"u","n","c","l","e","a","r">>,
       <<"i","n","c","o","m","p","l","e","t","e">> >>

\* what the language model may answer (response.content)
Responses ==
    { <<>>,
      <<"O","K">>,
      <<"W","e","a","k">>,
      <<"w","e","e","k">> }

\* the outcome of a model call that raises instead of returning
Raise == <<"<raise>">>

Topics == {"X", "RL"}

SystemMessage(content) == [type |-> "system", content |-> content]
HumanMessage(content)  == [type |-> "human",  content |-> content]
AIMessage(content)     == [type |-> "ai",     content |-> content]

----------------------------------------------------------------------------
(* State and delta.  {**state, "k": v} and the executor's write of a      *)
(* node's return value onto the state: every field of the delta           *)
(* overwrites, every other field is kept.                                 *)

mergeKeepsOld(s, d) ==
    [f \in (DOMAIN s) \cup (DOMAIN d) |-> IF f \in DOMAIN s THEN s[f] ELSE d[f]]

merge(s, d) ==
    [f \in (DOMAIN s) \cup (DOMAIN d) |-> IF f \in DOMAIN d THEN d[f] ELSE s[f]]

----------------------------------------------------------------------------
(* The strategic executor graph, 06_strategic_executor.py *)

\* p is an initial part of q
IsPrefix(p, q) == Len(p) <= Len(q) /\ SubSeq(q, 1, Len(p)) = p

\* dict.get(key, default)
Get(state, key, default) == IF key \in DOMAIN state THEN state[key] ELSE default

\* Python truthiness of a str
Truthy(text) == Len(text) > 0

create_plan_node(state, response) ==
    LET prompt == <<"Create a strategic plan for writing about: '", state.topic,
                    "' ... Output a clear, actionable plan.">>
        messages == << SystemMessage(<<"You are a strategic content planner.">>),
                       HumanMessage(prompt) >>
        plan == response
    IN  merge(state,
              [plan     |-> plan,
               messages |-> Get(state, "messages", <<>>) \o messages
                              \o <<AIMessage(response)>>])

\* an evaluation that raises the flag and leaves the score at its default
evaluate_plan_node_flag_only(state, response) ==
    LET needs_adaptation ==
            \E i \in DOMAIN KEYWORDS : Contains(KEYWORDS[i], lower(response))
    IN  merge(state,
              [plan_quality_score |-> 7,
               adaptation_needed  |-> needs_adaptation,
               messages           |-> Get(state, "messages", <<>>)
                                        \o <<HumanMessage(<<"Evaluate">>), AIMessage(response)>>])

\* an evaluation that returns only its own two messages
evaluate_plan_node_fresh(state, response) ==
    LET needs_adaptation ==
            \E i \in DOMAIN KEYWORDS : Contains(KEYWORDS[i], lower(response))
    IN  merge(state,
              [plan_quality_score |-> IF needs_adaptation THEN 5 ELSE 7,
               adaptation_needed  |-> needs_adaptation,
               messages           |-> <<HumanMessage(<<"Evaluate">>), AIMessage(response)>>])

evaluate_plan_node(state, response) ==
    LET prompt == <<"Evaluate this plan for writing about '", state.topic, "':">>
                    \o state.plan
                    \o <<"Rate the plan quality (1-10) ...">>
        messages == Get(state, "messages", <<>>) \o <<HumanMessage(prompt)>>
        evaluation == response
        needs_adaptation ==
            \E i \in DOMAIN KEYWORDS : Contains(KEYWORDS[i], lower(evaluation))
        score == IF needs_adaptation THEN 5 ELSE 7
    IN  merge(state,
              [plan_quality_score |-> score,
               adaptation_needed  |-> needs_adaptation,
               messages           |-> messages \o <<AIMessage(response)>>])

\* an adaptation that also writes its output over plan
adapt_plan_node_replans(state, response) ==
    merge(state,
          [adapted_plan |-> response,
           plan         |-> response,
           messages     |-> Get(state, "messages", <<>>)
                              \o <<HumanMessage(<<"Improve this plan for '">>),
                                   AIMessage(response)>>])

adapt_plan_node(state, response) ==
    IF ~Get(state, "adaptation_needed", FALSE)
    THEN merge(state, [adapted_plan |-> state.plan])
    ELSE LET prompt == <<"Improve this plan for '", state.topic, "': Current Plan:">>
                        \o state.plan
                        \o <<"Create a refined, improved version ...">>
             messages == Get(state, "messages", <<>>) \o <<HumanMessage(prompt)>>
             adapted_plan == response
         IN  merge(state,
                   [adapted_plan |-> adapted_plan,
                    messages     |-> messages \o <<AIMessage(response)>>])

\* the original plan, whatever adapted_plan holds
plan_to_use_original(state) == state.plan

\* state.get("adapted_plan") or state["plan"]
plan_to_use(state) ==
    IF "adapted_plan" \in DOMAIN state /\ Truthy(state.adapted_plan)
    THEN state.adapted_plan
    ELSE state.plan

\* an execution that does not set final_result
execute_plan_node_no_final(state, response) ==
    merge(state,
          [execution_result |-> response,
           messages         |-> Get(state, "messages", <<>>)
                                  \o <<HumanMessage(<<"Execute">>), AIMessage(response)>>])

execute_plan_node(state, response) ==
    LET prompt == <<"Execute this plan to write about '", state.topic, "': Plan:">>
                    \o plan_to_use(state)
                    \o <<"Write a well-structured summary following the plan.">>
        messages == Get(state, "messages", <<>>) \o <<HumanMessage(prompt)>>
        result == response
    IN  merge(state,
              [execution_result |-> result,
               final_result     |-> result,
               messages         |-> messages \o <<AIMessage(response)>>])

should_adapt_never(state) == "execute"

should_adapt_always(state) == "adapt"

should_adapt(state) ==
    IF Get(state, "adaptation_needed", FALSE) THEN "adapt" ELSE "execute"

\* langgraph's END marker
END == "__end__"

\* workflow.set_entry_point
entry_point == "plan"

\* workflow.add_edge
edges == [plan |-> "evaluate", adapt |-> "execute", execute |-> END]

\* the mapping given to workflow.add_conditional_edges("evaluate", should_adapt, ...)
path_map == [adapt |-> "adapt", execute |-> "execute"]

\* the node the compiled graph runs after `node` has returned `state`
NextNode(node, state) ==
    IF node = "evaluate" THEN path_map[should_adapt(state)] ELSE edges[node]

\* strategic_executor: the state the graph is invoked with
initial_state(topic) ==
    [topic              |-> topic,
     plan               |-> <<>>,
     execution_result   |-> <<>>,
     plan_quality_score |-> 0,
     adaptation_needed  |-> FALSE,
     adapted_plan       |-> <<>>,
     final_result       |-> <<>>,
     messages           |-> <<>>]

\* strategic_executor(topic): app.invoke(initial_state)
StrategicExecutor ==
    /\ sNode = "idle"
    /\ \E topic \in Topics :
          /\ sState' = initial_state(topic)
          /\ sNode' = entry_point
          /\ sVisited' = <<>>
    /\ UNCHANGED <<checkpointVars, storeVars, mergeVars, extVars>>

\* a node whose model call raises: the exception leaves app.invoke
NodeRaises(name) ==
    /\ sNode' = "failed"
    /\ sVisited' = Append(sVisited, name)
    /\ UNCHANGED sState

\* a node returns `result`: it is written onto the state and the edge is followed
NodeReturns(name, result) ==
    /\ sState' = merge(sState, result)
    /\ sVisited' = Append(sVisited, name)
    /\ sNode' = NextNode(name, merge(sState, result))

PlanStep ==
    /\ sNode = "plan"
    /\ \E r \in Responses \cup {Raise} :
          IF r = Raise THEN NodeRaises("plan")
          ELSE NodeReturns("plan", create_plan_node(sState, r))
    /\ UNCHANGED <<checkpointVars, storeVars, mergeVars, extVars>>

EvaluateStep ==
    /\ sNode = "evaluate"
    /\ \E r \in Responses \cup {Raise} :
          IF r = Raise THEN NodeRaises("evaluate")
          ELSE NodeReturns("evaluate", evaluate_plan_node(sState, r))
    /\ UNCHANGED <<checkpointVars, storeVars, mergeVars, extVars>>

AdaptStep ==
    /\ sNode = "adapt"
    /\ \E r \in Responses \cup {Raise} :
          IF r = Raise /\ Get(sState, "adaptation_needed", FALSE)
          THEN NodeRaises("adapt")
          ELSE NodeReturns("adapt", adapt_plan_node(sState, r))
    /\ UNCHANGED <<checkpointVars, storeVars, mergeVars, extVars>>

ExecuteStep ==
    /\ sNode = "execute"
    /\ \E r \in Responses \cup {Raise} :
          IF r = Raise THEN NodeRaises("execute")
          ELSE NodeReturns("execute", execute_plan_node(sState, r))
    /\ UNCHANGED <<checkpointVars, storeVars, mergeVars, extVars>>

----------------------------------------------------------------------------
(* The checkpointed chatbot graph, 08_memory_langgraph.py example 4.      *)
(* ConversationState declares  messages: list  with no reducer, so a      *)
(* value written to messages (by the input of an invocation or by a       *)
(* node) replaces the one held.                                           *)

Range(seq) == {seq[i] : i \in DOMAIN seq}

\* config = {"configurable": {"thread_id": "conversation-1"}}
config == [thread_id |-> "conversation-1"]

\* new_config = {"configurable": {"thread_id": "conversation-2"}}
new_config == [thread_id |-> "conversation-2"]

Configs == {config, new_config}

Threads == {c.thread_id : c \in Configs}

\* the input of the first invocation
first_input ==
    [messages |-> << SystemMessage(<<"You are a helpful assistant.">>),
                     HumanMessage(<<"Hi! My name is Alice.">>) >>]

\* the input of the second and of the third invocation
second_input == [messages |-> << HumanMessage(<<"What's my name?">>) >>]

Inputs == {first_input, second_input}

\* what the language model may answer in the chat
ChatReplies == { <<"Your name is Alice.">>, <<"I don't know your name.">> }

\* the latest snapshot of any thread that has one, whatever the thread asked for
loadLatestAny(store, thread_id) ==
    IF \E t \in DOMAIN store : Len(store[t]) > 0
    THEN LET t == CHOOSE u \in DOMAIN store : Len(store[u]) > 0
         IN  <<store[t][Len(store[t])]>>
    ELSE <<>>

\* MemorySaver: the latest snapshot saved under thread_id, <<>> if none
loadLatest(store, thread_id) ==
    IF Len(store[thread_id]) > 0
    THEN <<store[thread_id][Len(store[thread_id])]>>
    ELSE <<>>

\* MemorySaver: a snapshot saved under thread_id
save(store, thread_id, state) ==
    [store EXCEPT ![thread_id] = Append(@, state)]

\* app.invoke(input, config): the state the entry node runs on.  The input
\* is written onto the loaded state, field by field.
resume_state(loaded, input) ==
    IF Len(loaded) = 0 THEN input ELSE merge(loaded[1], input)

\* the delta chatbot_node returns
chatbot_node(state, response) ==
    LET messages == state.messages
    IN  [messages |-> messages \o <<AIMessage(response)>>]

\* app.invoke(input, config=cfg) starts: load, write the input, enter "chatbot"
Invoke(cfg, input) ==
    LET t == cfg.thread_id
        loaded == loadLatest(checkpoints, t)
    IN  /\ run[t].pc = "idle"
        /\ run[t].invokes < MaxInvokes
        /\ run' = [run EXCEPT ![t] = [pc      |-> "chatbot",
                                      state   |-> resume_state(loaded, input),
                                      loaded  |-> loaded,
                                      invokes |-> @.invokes + 1]]
        /\ written' = [written EXCEPT ![t] = @ \cup Range(input.messages)]
        /\ UNCHANGED <<checkpoints, strategicVars, storeVars, mergeVars, extVars>>

\* the chatbot node runs, its delta is written onto the state, the state is
\* checkpointed and the edge chatbot -> END ends the invocation
ChatbotStep(t) ==
    /\ run[t].pc = "chatbot"
    /\ \E r \in ChatReplies :
          LET new == merge(run[t].state, chatbot_node(run[t].state, r))
          IN  /\ run' = [run EXCEPT ![t].pc = "idle", ![t].state = new]
              /\ checkpoints' = save(checkpoints, t, new)
              /\ written' = [written EXCEPT ![t] = @ \cup {AIMessage(r)}]
    /\ UNCHANGED <<strategicVars, storeVars, mergeVars, extVars>>

----------------------------------------------------------------------------
(* The knowledge store, 08_memory_langgraph.py example 5 *)

\* namespace = (user_id, app_context)
Namespaces == { <<"user_alice", "personal_assistant">>, <<"user_bob", "assistant">> }

StoreKeys == {"user_preferences", "preferences"}

StoreValues == { [name |-> "Alice"], [name |-> "Bob"] }

\* a put that leaves an existing record alone
putIfAbsent(store, ns, key, value) ==
    IF Len(store[<<ns, key>>]) > 0 THEN store
    ELSE [store EXCEPT ![<<ns, key>>] = <<value>>]

\* a put to every record with the key, whatever its namespace
putAnyNamespace(store, ns, key, value) ==
    [p \in DOMAIN store |-> IF p[2] = key THEN <<value>> ELSE store[p]]

\* store.put(namespace, key, value)
put(store, ns, key, value) == [store EXCEPT ![<<ns, key>>] = <<value>>]

\* store.get(namespace, key): <<>> if there is no record
get(store, ns, key) == store[<<ns, key>>]

Put ==
    /\ Len(kLog) < MaxPuts
    /\ \E ns \in Namespaces, key \in StoreKeys, value \in StoreValues :
          /\ kStore' = put(kStore, ns, key, value)
          /\ kLog' = Append(kLog, [ns |-> ns, key |-> key, value |-> value])
    /\ UNCHANGED <<kGot, strategicVars, checkpointVars, mergeVars, extVars>>

GetItem ==
    /\ \E ns \in Namespaces, key \in StoreKeys :
          kGot' = << [ns |-> ns, key |-> key,
                      result |-> get(kStore, ns, key), at |-> Len(kLog)] >>
    /\ UNCHANGED <<kStore, kLog, strategicVars, checkpointVars, mergeVars, extVars>>

----------------------------------------------------------------------------
(* Two deltas merged in sequence *)

MergeFields == {"plan", "adapted_plan"}

MergeValues == { <<"O","K">>, <<"W","e","a","k">> }

\* every mapping from some of the fields to values
PartialStates == UNION { [D -> MergeValues] : D \in SUBSET MergeFields }

ApplyD1 ==
    /\ mPc = 0
    /\ mAcc' = merge(mAcc, mD1)
    /\ mPc' = 1
    /\ UNCHANGED <<mS, mD1, mD2, strategicVars, checkpointVars, storeVars, extVars>>

ApplyD2 ==
    /\ mPc = 1
    /\ mAcc' = merge(mAcc, mD2)
    /\ mPc' = 2
    /\ UNCHANGED <<mS, mD1, mD2, strategicVars, checkpointVars, storeVars, extVars>>

----------------------------------------------------------------------------
(* The plan/write graph, 06_planing_langgraph.py *)

\* create_plan_node of 06_planing_langgraph.py
writing_create_plan_node(state, response) ==
    LET prompt == <<"Create a bullet-point plan for a summary on the topic: '",
                    state.topic, "'. Output only the plan as a bulleted list.">>
        messages == << SystemMessage(<<"You are an expert technical writer and content strategist.">>),
                       HumanMessage(prompt) >>
        plan == response
    IN  merge(state,
              [plan     |-> plan,
               messages |-> Get(state, "messages", <<>>)
                              \o <<messages[1], messages[2], AIMessage(response)>>])

write_summary_node(state, response) ==
    LET prompt == <<"Based on this plan:">>
                    \o state.plan
                    \o <<"Write a concise and well-structured summary on the topic: '",
                         state.topic, "'. Keep it around 200 words.">>
        messages == Get(state, "messages", <<>>) \o <<HumanMessage(prompt)>>
        summary == response
    IN  merge(state,
              [summary  |-> summary,
               messages |-> messages \o <<AIMessage(response)>>])

\* an entry point at the write node
writing_entry_point_write == "write"

\* workflow.set_entry_point of the plan/write graph
writing_entry_point == "plan"

writing_edges_cyclic == [plan |-> "write", write |-> "plan"]

\* workflow.add_edge of the plan/write graph
writing_edges == [plan |-> "write", write |-> END]

\* initial_state of 06_planing_langgraph.py
writing_initial_state(topic) ==
    [topic |-> topic, plan |-> <<>>, summary |-> <<>>, messages |-> <<>>]

\* app.invoke(initial_state)
WritingInvoke ==
    /\ wNode = "idle"
    /\ \E topic \in Topics :
          /\ wState' = writing_initial_state(topic)
          /\ wNode' = writing_entry_point
          /\ wVisited' = <<>>
    /\ UNCHANGED <<strategicVars, checkpointVars, storeVars, mergeVars, routeVars, toolUseVars,
                 dispatchVars, heapVars, loadVars, searchVars>>

WritingNodeRaises(name) ==
    /\ wNode' = "failed"
    /\ wVisited' = Append(wVisited, name)
    /\ UNCHANGED wState

WritingNodeReturns(name, result) ==
    /\ wState' = merge(wState, result)
    /\ wVisited' = Append(wVisited, name)
    /\ wNode' = writing_edges[name]

WritingPlanStep ==
    /\ wNode = "plan"
    /\ \E r \in Responses \cup {Raise} :
          IF r = Raise THEN WritingNodeRaises("plan")
          ELSE WritingNodeReturns("plan", writing_create_plan_node(wState, r))
    /\ UNCHANGED <<strategicVars, checkpointVars, storeVars, mergeVars, routeVars, toolUseVars,
                 dispatchVars, heapVars, loadVars, searchVars>>

WritingWriteStep ==
    /\ wNode = "write"
    /\ \E r \in Responses \cup {Raise} :
          IF r = Raise THEN WritingNodeRaises("write")
          ELSE WritingNodeReturns("write", write_summary_node(wState, r))
    /\ UNCHANGED <<strategicVars, checkpointVars, storeVars, mergeVars, routeVars, toolUseVars,
                 dispatchVars, heapVars, loadVars, searchVars>>

IdleWriting ==
    /\ wNode = "idle"
    /\ wState = writing_initial_state("X")
    /\ wVisited = <<>>

NextWriting ==
    \/ WritingInvoke
    \/ WritingPlanStep
    \/ WritingWriteStep

----------------------------------------------------------------------------
(* should_adapt and adapt_plan_node applied to a state that may lack fields *)

\* a dict without the keys D
Without(state, D) == [f \in (DOMAIN state) \ D |-> state[f]]

OptionalFields == {"adaptation_needed", "messages", "plan"}

\* states as evaluate may leave them, some fields possibly missing
RouteInputs ==
    { Without([initial_state(topic) EXCEPT !.plan = plan, !.adaptation_needed = flag], D) :
        topic \in Topics, plan \in Responses, flag \in BOOLEAN,
        D \in SUBSET OptionalFields }

NoResult == [op |-> "none", raised |-> "", next |-> "", state |-> <<>>]

\* should_adapt(state)
RouteCall ==
    /\ rResult.op = "none"
    /\ rResult' = [op |-> "route", raised |-> "",
                   next |-> should_adapt(rState), state |-> <<>>]
    /\ UNCHANGED <<rState, strategicVars, checkpointVars, storeVars, mergeVars,
                   writingVars, toolUseVars, dispatchVars, heapVars, loadVars, searchVars>>

\* adapt_plan_node(state): state["plan"] raises KeyError when plan is missing
AdaptCall ==
    /\ rResult.op = "none"
    /\ \E r \in Responses :
          rResult' = IF "plan" \notin DOMAIN rState
                     THEN [op |-> "adapt", raised |-> "KeyError",
                           next |-> "", state |-> <<>>]
                     ELSE [op |-> "adapt", raised |-> "",
                           next |-> "", state |-> adapt_plan_node(rState, r)]
    /\ UNCHANGED <<rState, strategicVars, checkpointVars, storeVars, mergeVars,
                   writingVars, toolUseVars, dispatchVars, heapVars, loadVars, searchVars>>

IdleRoute ==
    /\ rState = initial_state("X")
    /\ rResult = NoResult

NextRoute == RouteCall \/ AdaptCall

----------------------------------------------------------------------------
(* The tool-use demo, 05_tool_use.py: three run_agent_with_tool          *)
(* coroutines gathered by main                                            *)

\* the queries main submits, in order
tasks ==
    << "What is the capital of France?",
       "What's the weather like in London?",
       "Tell me something about dogs." >>

\* what agent_executor.ainvoke may return: a dict with or without messages
AgentReturns == {"messages", "no messages"}

NotStarted(query) ==
    [pc |-> "pending", query |-> query, failure |-> FALSE,
     printed |-> "", outcome |-> "", value |-> ""]

\* the coroutine runs up to its first await: without an agent_executor it
\* prints a warning and returns None, else it awaits agent_executor.ainvoke
TaskStart(i) ==
    /\ tTasks[i].pc = "pending"
    /\ \A j \in 1..(i - 1) : tTasks[j].pc # "pending"
    /\ tTasks' = [tTasks EXCEPT ![i] =
                    IF tExecutor = "None"
                    THEN [@ EXCEPT !.pc = "done", !.printed = "warning",
                                   !.outcome = "returned", !.value = "None"]
                    ELSE [@ EXCEPT !.pc = "awaiting"]]
    /\ tFinished' = IF tExecutor = "None" THEN Append(tFinished, i) ELSE tFinished
    /\ UNCHANGED <<tExecutor, tGather, strategicVars, checkpointVars, storeVars,
                   mergeVars, writingVars, routeVars, dispatchVars, heapVars, loadVars, searchVars>>

\* ainvoke returns: the last message (or the response) is printed
AinvokeReturns(i) ==
    /\ tTasks[i].pc = "awaiting"
    /\ \E r \in AgentReturns :
          tTasks' = [tTasks EXCEPT ![i] =
                        [@ EXCEPT !.pc = "done",
                                  !.printed = IF r = "messages" THEN "last message"
                                              ELSE "response",
                                  !.outcome = "returned", !.value = "None"]]
    /\ tFinished' = Append(tFinished, i)
    /\ UNCHANGED <<tExecutor, tGather, strategicVars, checkpointVars, storeVars,
                   mergeVars, writingVars, routeVars, dispatchVars, heapVars, loadVars, searchVars>>

\* ainvoke raises: except Exception prints it and the coroutine returns None
AinvokeRaises(i) ==
    /\ tTasks[i].pc = "awaiting"
    /\ tTasks' = [tTasks EXCEPT ![i] =
                    [@ EXCEPT !.pc = "done", !.failure = TRUE,
                              !.printed = "exception",
                              !.outcome = "returned", !.value = "None"]]
    /\ tFinished' = Append(tFinished, i)
    /\ UNCHANGED <<tExecutor, tGather, strategicVars, checkpointVars, storeVars,
                   mergeVars, writingVars, routeVars, dispatchVars, heapVars, loadVars, searchVars>>

\* a result list in the order the coroutines finished
gather_as_completed(ts, finished) ==
    [k \in DOMAIN finished |-> [task |-> finished[k], value |-> ts[finished[k]].value]]

\* asyncio.gather(*tasks): the result of each awaitable, at the position
\* of the awaitable; task names the coroutine a result came from
gather(ts, finished) ==
    [i \in DOMAIN ts |-> [task |-> i, value |-> ts[i].value]]

\* await asyncio.gather(*tasks) returns once every coroutine is done
GatherReturns ==
    /\ tGather = <<>>
    /\ \A i \in DOMAIN tTasks : tTasks[i].pc = "done"
    /\ tGather' = gather(tTasks, tFinished)
    /\ UNCHANGED <<tExecutor, tTasks, tFinished, strategicVars, checkpointVars, storeVars,
                   mergeVars, writingVars, routeVars, dispatchVars, heapVars, loadVars, searchVars>>

IdleToolUse ==
    /\ tExecutor = "agent"
    /\ tTasks = [i \in DOMAIN tasks |-> NotStarted(tasks[i])]
    /\ tGather = <<>>
    /\ tFinished = <<>>

NextToolUse ==
    \/ \E i \in DOMAIN tasks : TaskStart(i)
    \/ \E i \in DOMAIN tasks : AinvokeReturns(i)
    \/ \E i \in DOMAIN tasks : AinvokeRaises(i)
    \/ GatherReturns

----------------------------------------------------------------------------
(* The tool dispatch loop of tool_explanation.py *)

\* tools = [calculate_age, get_capital]: the names, in list order
tools == <<"calculate_age", "get_capital">>

France == <<"F","r","a","n","c","e">>

Narnia == <<"N","a","r","n","i","a">>

\* capitals in get_capital (the entry the calls of the model can hit)
capitals == [k \in { <<"f","r","a","n","c","e">> } |-> "Paris"]

\* calculate_age(birth_year, current_year=2024)
calculate_age(birth_year) ==
    LET age == 2024 - birth_year
    IN  <<"The person is ", age, " years old.">>

\* get_capital(country)
get_capital(country) ==
    LET capital == IF lower(country) \in DOMAIN capitals
                   THEN capitals[lower(country)] ELSE "Unknown"
    IN  <<"The capital of ", country, " is ", capital, ".">>

\* tool_func.invoke(tool_call['args'])
ToolInvoke(name, args) ==
    IF name = "calculate_age" THEN calculate_age(args.birth_year)
    ELSE get_capital(args.country)

\* the tool calls the model may produce; nothing keeps it to the bound tools
ToolCalls ==
    { [name |-> "calculate_age", args |-> [birth_year |-> 1990, country |-> <<>>]],
      [name |-> "get_capital",   args |-> [birth_year |-> 0, country |-> France]],
      [name |-> "get_capital",   args |-> [birth_year |-> 0, country |-> Narnia]],
      [name |-> "get_weather",   args |-> [birth_year |-> 0, country |-> France]] }

RECURSIVE SeqsUpTo(_, _)
SeqsUpTo(S, n) ==
    IF n = 0 THEN { <<>> }
    ELSE LET shorter == SeqsUpTo(S, n - 1)
         IN  shorter \cup { Append(q, x) : q \in shorter, x \in S }

\* the inner loop: the first tool of the list with the name of the call,
\* run; when no tool has that name the loop ends and nothing is done
DispatchOne(tool_call) ==
    LET matches == { k \in DOMAIN tools : tools[k] = tool_call.name }
    IN  IF matches = {}
        THEN [name |-> tool_call.name, outcome |-> "skipped", result |-> <<>>]
        ELSE [name |-> tool_call.name, outcome |-> "result",
              result |-> ToolInvoke(tool_call.name, tool_call.args)]

\* response = llm_with_tools.invoke(messages)
LlmResponds ==
    /\ dPc = "start"
    /\ \/ \E calls \in SeqsUpTo(ToolCalls, MaxToolCalls) :
             /\ dCalls' = calls
             /\ dPc' = IF Len(calls) > 0 THEN "loop" ELSE "direct"
       \/ /\ dPc' = "except"
          /\ UNCHANGED dCalls
    /\ UNCHANGED <<dIndex, dLog, strategicVars, checkpointVars, storeVars, mergeVars,
                   writingVars, routeVars, toolUseVars, heapVars, loadVars, searchVars>>

\* one turn of  for tool_call in response.tool_calls
DispatchCall ==
    /\ dPc = "loop"
    /\ dLog' = Append(dLog, DispatchOne(dCalls[dIndex]))
    /\ dIndex' = dIndex + 1
    /\ dPc' = IF dIndex = Len(dCalls) THEN "done" ELSE "loop"
    /\ UNCHANGED <<dCalls, strategicVars, checkpointVars, storeVars, mergeVars,
                   writingVars, routeVars, toolUseVars, heapVars, loadVars, searchVars>>

IdleDispatch ==
    /\ dPc = "start"
    /\ dCalls = <<>>
    /\ dIndex = 1
    /\ dLog = <<>>

NextDispatch == LlmResponds \/ DispatchCall

----------------------------------------------------------------------------
(* The strategic nodes over an object heap.  A node receives a reference  *)
(* to the state dict; the dict's messages entry is a reference to a list  *)
(* object.  {**state, ...} and  a + b  build new objects; the objects     *)
(* that existed when the node was called are listed in hDicts and hLists  *)
(* under their identities.                                                *)

\* a.extend(items): the list object a itself grows
list_iadd(lists, a, items) ==
    [lists |-> [lists EXCEPT ![a] = @ \o items], id |-> a]

\* a + items: a new list object with the items of a followed by items
list_add(lists, a, items) ==
    [lists |-> Append(lists, lists[a] \o items), id |-> Len(lists) + 1]

\* the state a node reads through the reference d
Deref(lists, dicts, d) == [dicts[d] EXCEPT !.messages = lists[@]]

\* what calling node `name` with the state dict d does to the heap when the
\* model answers `response`: the messages list of the returned dict is
\* built with +, the returned dict with {**state, ...}
RunNode(lists, dicts, name, d, response) ==
    LET state  == Deref(lists, dicts, d)
        result == CASE name = "plan"     -> create_plan_node(state, response)
                    [] name = "evaluate" -> evaluate_plan_node(state, response)
                    [] name = "adapt"    -> adapt_plan_node(state, response)
                    [] name = "execute"  -> execute_plan_node(state, response)
        \* adapt's early return copies the reference to the messages list
        shares == name = "adapt" /\ ~Get(state, "adaptation_needed", FALSE)
        old    == dicts[d].messages
        added  == SubSeq(result.messages, Len(state.messages) + 1, Len(result.messages))
        built  == list_add(lists, old, added)
        msgs   == IF shares THEN old ELSE built.id
    IN  [lists |-> IF shares THEN lists ELSE built.lists,
         dicts |-> Append(dicts, [result EXCEPT !.messages = msgs]),
         ret   |-> Len(dicts) + 1]

\* strategic_executor(topic): initial_state is built and handed to app.invoke
HeapInvoke ==
    /\ hNode = "idle"
    /\ \E topic \in Topics :
          /\ hLists' = <<initial_state(topic).messages>>
          /\ hDicts' = <<[initial_state(topic) EXCEPT !.messages = 1]>>
    /\ hState' = 1
    /\ hNode' = entry_point
    /\ hPc' = "call"
    /\ UNCHANGED <<hRet, strategicVars, checkpointVars, storeVars, mergeVars,
                   writingVars, routeVars, toolUseVars, dispatchVars, loadVars, searchVars>>

\* the node function runs and returns, or its model call raises
NodeExecutes ==
    /\ hPc = "call"
    /\ hNode \in DOMAIN edges \cup {"evaluate"}
    /\ \E r \in Responses \cup {Raise} :
          IF r = Raise
          THEN /\ hNode' = "failed"
               /\ UNCHANGED <<hLists, hDicts, hRet, hPc>>
          ELSE LET ran == RunNode(hLists, hDicts, hNode, hState, r)
               IN  /\ hLists' = ran.lists
                   /\ hDicts' = ran.dicts
                   /\ hRet' = ran.ret
                   /\ hPc' = "merge"
                   /\ UNCHANGED hNode
    /\ UNCHANGED <<hState, strategicVars, checkpointVars, storeVars, mergeVars,
                   writingVars, routeVars, toolUseVars, dispatchVars, loadVars, searchVars>>

\* the executor writes the returned dict onto the state and follows the edge
ExecutorMerges ==
    /\ hPc = "merge"
    /\ hDicts' = [hDicts EXCEPT ![hState] = merge(@, hDicts[hRet])]
    /\ hRet' = 0
    /\ IF hNode = "evaluate"
       THEN hPc' = "route" /\ UNCHANGED hNode
       ELSE hPc' = "call" /\ hNode' = edges[hNode]
    /\ UNCHANGED <<hLists, hState, strategicVars, checkpointVars, storeVars, mergeVars,
                   writingVars, routeVars, toolUseVars, dispatchVars, loadVars, searchVars>>

\* should_adapt runs on the state and names the next node
RouterExecutes ==
    /\ hPc = "route"
    /\ hNode' = path_map[should_adapt(Deref(hLists, hDicts, hState))]
    /\ hPc' = "call"
    /\ UNCHANGED <<hLists, hDicts, hState, hRet, strategicVars, checkpointVars,
                   storeVars, mergeVars, writingVars, routeVars, toolUseVars,
                   dispatchVars, loadVars, searchVars>>

IdleHeap ==
    /\ hLists = <<>>
    /\ hDicts = <<>>
    /\ hState = 0
    /\ hRet = 0
    /\ hNode = "idle"
    /\ hPc = "call"

NextHeap == HeapInvoke \/ NodeExecutes \/ ExecutorMerges \/ RouterExecutes

----------------------------------------------------------------------------
(* The long-term store read by a node, 08_memory_langgraph.py example 6 *)

UserIds == {"user_bob", "user_alice"}

\* namespace = (user_id, "assistant")
LoadNamespaces == { <<u, "assistant">> : u \in UserIds }

\* what app.invoke is given, for either user
LoadInputs ==
    { [messages |-> <<HumanMessage(<<"What are my favorite topics?">>)>>,
       user_id |-> u, loaded_preferences |-> <<>>] : u \in UserIds }

\* store.search(namespace, ...): the items under the namespace prefix.
\* The ranking by the embedding and the limit are not modelled; the
\* stores of the model hold fewer items than the limit.
search(store, prefix) ==
    { [namespace |-> p[1], key |-> p[2], value |-> store[p][1]] :
        p \in { q \in DOMAIN store : Len(store[q]) > 0 /\ IsPrefix(prefix, q[1]) } }

\* load_memory_node.  store.get hands back one Item or None, written
\* <<item>> or <<>> here.  An Item has no item access, so prefs[0] raises
\* TypeError whenever a record was found; the lines after it are not reached.
load_memory_node(state, store) ==
    LET namespace == <<state.user_id, "assistant">>
        prefs == get(store, namespace, "preferences")
    IN  IF Len(prefs) > 0
        THEN [prefs |-> prefs, raised |-> "TypeError", state |-> state]
        ELSE [prefs |-> prefs, raised |-> "", state |-> state]

\* long_term_store.put(namespace, "preferences", {...})
LongTermPut ==
    /\ Len(kLog) < MaxPuts
    /\ \E ns \in LoadNamespaces, value \in StoreValues :
          /\ kStore' = put(kStore, ns, "preferences", value)
          /\ kLog' = Append(kLog, [ns |-> ns, key |-> "preferences", value |-> value])
    /\ UNCHANGED <<kGot, lSeen, strategicVars, checkpointVars, mergeVars, writingVars,
                   routeVars, toolUseVars, dispatchVars, heapVars, searchVars>>

\* the graph runs load_memory_node on the state it was invoked with
LoadMemory ==
    /\ \E state \in LoadInputs :
          LET r == load_memory_node(state, kStore)
          IN  lSeen' = << [op |-> "load", ns |-> <<state.user_id, "assistant">>,
                           prefs |-> r.prefs, found |-> {}, raised |-> r.raised,
                           given |-> state, state |-> r.state, at |-> Len(kLog)] >>
    /\ UNCHANGED <<kStore, kLog, kGot, strategicVars, checkpointVars, mergeVars,
                   writingVars, routeVars, toolUseVars, dispatchVars, heapVars, searchVars>>

\* store.search(namespace, query=..., limit=3)
Search ==
    /\ \E ns \in LoadNamespaces, state \in LoadInputs :
          lSeen' = << [op |-> "search", ns |-> ns, prefs |-> <<>>,
                       found |-> search(kStore, ns), raised |-> "",
                       given |-> state, state |-> state, at |-> Len(kLog)] >>
    /\ UNCHANGED <<kStore, kLog, kGot, strategicVars, checkpointVars, mergeVars,
                   writingVars, routeVars, toolUseVars, dispatchVars, heapVars, searchVars>>

IdleLoad == lSeen = <<>>

NextLoad == LongTermPut \/ LoadMemory \/ Search

----------------------------------------------------------------------------
(* The search tool of 05_tool_use.py *)

weather_in_london == <<"w","e","a","t","h","e","r"," ","i","n"," ","l","o","n","d","o","n">>

capital_of_france == <<"c","a","p","i","t","a","l"," ","o","f"," ","f","r","a","n","c","e">>

population_of_earth == <<"p","o","p","u","l","a","t","i","o","n"," ","o","f"," ","e","a","r","t","h">>

tallest_mountain == <<"t","a","l","l","e","s","t"," ","m","o","u","n","t","a","i","n">>

default_key == <<"d","e","f","a","u","l","t">>

\* a query no key matches in any case
about_dogs == <<"s","o","m","e","t","h","i","n","g"," ","a","b","o","u","t"," ","d","o","g","s">>

\* the four topics of simulated_results
predefined ==
    (weather_in_london :> <<"The weather in London is currently cloudy with a temperature of 15C.">>)
    @@ (capital_of_france :> <<"The capital of France is Paris.">>)
    @@ (population_of_earth :> <<"The estimated population of Earth is around 8 billion people.">>)
    @@ (tallest_mountain :> <<"Mount Everest is the tallest mountain above sea level.">>)

\* the f-string under "default"
default_result(query) ==
    <<"Simulated search result for '">> \o query
        \o <<"': No specific information found, but the topic seems interesting.">>

simulated_results(query) == predefined @@ (default_key :> default_result(query))

\* a lookup with the query as typed
search_information_cased(query) ==
    IF query \in DOMAIN simulated_results(query)
    THEN simulated_results(query)[query]
    ELSE simulated_results(query)[default_key]

\* simulated_results.get(query.lower(), simulated_results["default"])
search_information(query) ==
    IF lower(query) \in DOMAIN simulated_results(query)
    THEN simulated_results(query)[lower(query)]
    ELSE simulated_results(query)[default_key]

\* str.upper() on one character
UpperChar(c) ==
    IF \E i \in DOMAIN Lower : Lower[i] = c
    THEN Upper[CHOOSE i \in DOMAIN Lower : Lower[i] = c]
    ELSE c

\* t with some of its first n characters in upper case
CaseVariants(t, n) ==
    { [i \in DOMAIN t |-> IF i \in U THEN UpperChar(t[i]) ELSE t[i]] :
        U \in SUBSET (1..n) }

\* the queries the model may call the tool with
Queries ==
    UNION { CaseVariants(t, MaxCased) :
              t \in {weather_in_london, capital_of_france, population_of_earth,
                     tallest_mountain, default_key, about_dogs} }

\* the agent calls search_information(query=...)
ToolCalled ==
    /\ qResult = <<>>
    /\ qResult' = <<search_information(qQuery)>>
    /\ UNCHANGED <<qQuery, strategicVars, checkpointVars, storeVars, mergeVars, writingVars,
                   routeVars, toolUseVars, dispatchVars, heapVars, loadVars>>

IdleSearch ==
    /\ qQuery = capital_of_france
    /\ qResult = <<>>

NextSearch == ToolCalled

----------------------------------------------------------------------------
(* Specifications *)

IdleStrategic ==
    /\ sNode = "idle"
    /\ sState = initial_state("X")
    /\ sVisited = <<>>

IdleCheckpoint ==
    /\ run = [t \in Threads |-> [pc |-> "idle", state |-> [messages |-> <<>>],
                                 loaded |-> <<>>, invokes |-> 0]]
    /\ checkpoints = [t \in Threads |-> <<>>]
    /\ written = [t \in Threads |-> {}]

IdleStore ==
    /\ kStore = [p \in Namespaces \X StoreKeys |-> <<>>]
    /\ kLog = <<>>
    /\ kGot = <<>>

IdleMerge ==
    /\ mS = <<>>
    /\ mD1 = <<>>
    /\ mD2 = <<>>
    /\ mAcc = <<>>
    /\ mPc = 0

IdleExt == IdleWriting /\ IdleRoute /\ IdleToolUse /\ IdleDispatch /\ IdleHeap /\ IdleLoad /\ IdleSearch

Init == IdleStrategic /\ IdleCheckpoint /\ IdleStore /\ IdleMerge /\ IdleExt

InitMerge ==
    /\ IdleStrategic /\ IdleCheckpoint /\ IdleStore /\ IdleExt
    /\ mS \in PartialStates
    /\ mD1 \in PartialStates
    /\ mD2 \in PartialStates
    /\ mAcc = mS
    /\ mPc = 0

NextStrategic ==
    \/ StrategicExecutor
    \/ PlanStep
    \/ EvaluateStep
    \/ AdaptStep
    \/ ExecuteStep

NextCheckpoint ==
    \/ \E cfg \in Configs, input \in Inputs : Invoke(cfg, input)
    \/ \E t \in Threads : ChatbotStep(t)

NextStore == Put \/ GetItem

NextMerge == ApplyD1 \/ ApplyD2

SpecStrategic == Init /\ [][NextStrategic]_vars

\* app.invoke runs the graph to the end: a node that is due is run
SpecStrategicFair ==
    SpecStrategic /\ WF_vars(PlanStep \/ EvaluateStep \/ AdaptStep \/ ExecuteStep)

SpecCheckpoint == Init /\ [][NextCheckpoint]_vars

SpecStore == Init /\ [][NextStore]_vars

SpecMerge == InitMerge /\ [][NextMerge]_vars

\* the two graphs without a checkpointer, each run on its own
NextGraphs == NextStrategic \/ NextWriting

SpecGraphs == Init /\ [][NextGraphs]_vars

InitRoute ==
    /\ IdleStrategic /\ IdleCheckpoint /\ IdleStore /\ IdleMerge
    /\ IdleWriting /\ IdleToolUse /\ IdleDispatch /\ IdleHeap /\ IdleLoad /\ IdleSearch
    /\ rState \in RouteInputs
    /\ rResult = NoResult

SpecRoute == InitRoute /\ [][NextRoute]_vars

\* the language model was initialised (agent_executor built) or not
InitToolUse ==
    /\ IdleStrategic /\ IdleCheckpoint /\ IdleStore /\ IdleMerge
    /\ IdleWriting /\ IdleRoute /\ IdleDispatch /\ IdleHeap /\ IdleLoad /\ IdleSearch
    /\ tExecutor \in {"agent", "None"}
    /\ tTasks = [i \in DOMAIN tasks |-> NotStarted(tasks[i])]
    /\ tGather = <<>>
    /\ tFinished = <<>>

SpecToolUse == InitToolUse /\ [][NextToolUse]_vars

SpecDispatch == Init /\ [][NextDispatch]_vars

SpecHeap == Init /\ [][NextHeap]_vars

\* a long-term store for the (user_id, "assistant") namespaces
InitLoad ==
    /\ IdleStrategic /\ IdleCheckpoint /\ IdleMerge /\ IdleExt
    /\ kStore = [p \in LoadNamespaces \X {"preferences"} |-> <<>>]
    /\ kLog = <<>>
    /\ kGot = <<>>

SpecLoad == InitLoad /\ [][NextLoad]_vars

\* the tool before a call, for every query of the model
InitSearch ==
    /\ IdleStrategic /\ IdleCheckpoint /\ IdleStore /\ IdleMerge
    /\ IdleWriting /\ IdleRoute /\ IdleToolUse /\ IdleDispatch /\ IdleHeap /\ IdleLoad
    /\ qQuery \in Queries
    /\ qResult = <<>>

SpecSearch == InitSearch /\ [][NextSearch]_vars

----------------------------------------------------------------------------
(* Properties *)

AdaptPath == <<"plan", "evaluate", "adapt", "execute">>

DirectPath == <<"plan", "evaluate", "execute">>

\* C1: a completed run of the strategic graph has executed exactly
\* plan, evaluate, adapt, execute when evaluate set adaptation_needed, and
\* exactly plan, evaluate, execute when it did not; at every moment the
\* nodes executed so far are a prefix of one of these two sequences, and
\* adapt is only ever executed with adaptation_needed set.
C1_NodeSequence ==
    /\ sNode = END =>
          sVisited = IF sState.adaptation_needed THEN AdaptPath ELSE DirectPath
    /\ IsPrefix(sVisited, AdaptPath) \/ IsPrefix(sVisited, DirectPath)
    /\ (\E i \in DOMAIN sVisited : sVisited[i] = "adapt") => sState.adaptation_needed
    /\ (Len(sVisited) >= 3 /\ sVisited[3] = "execute") => ~sState.adaptation_needed

C1_Witness ==
    /\ sNode = END
    /\ sState.adaptation_needed
    /\ sVisited = AdaptPath

\* C2: an invocation on a thread that has a checkpoint starts its entry
\* node on a state in which every field of that checkpoint still has its
\* checkpointed value (so messages still holds the earlier messages).
C2_ResumeKeepsCheckpoint ==
    \A t \in Threads :
        (run[t].pc = "chatbot" /\ Len(run[t].loaded) > 0) =>
            \A f \in DOMAIN run[t].loaded[1] :
                /\ f \in DOMAIN run[t].state
                /\ run[t].state[f] = run[t].loaded[1][f]

\* C3: what an invocation on a thread loads is a snapshot saved under that
\* same thread (nothing if the thread never saved), and every message in
\* the state it runs on, and in every snapshot saved under the thread, was
\* given to or produced by an invocation on that thread.
C3_ThreadIsolation ==
    \A t \in Threads :
        /\ Len(run[t].loaded) > 0 =>
              \E i \in DOMAIN checkpoints[t] : checkpoints[t][i] = run[t].loaded[1]
        /\ Range(run[t].state.messages) \subseteq written[t]
        /\ \A i \in DOMAIN checkpoints[t] :
              Range(checkpoints[t][i].messages) \subseteq written[t]

C3_Witness ==
    \E t, u \in Threads :
        /\ t # u
        /\ run[t].pc = "chatbot"
        /\ Len(run[t].loaded) > 0
        /\ Len(checkpoints[u]) > 0
        /\ \E m \in written[u] : m \notin written[t]

\* C4: after merging d1 and then d2 into s, each field holds d2's value if
\* d2 sets it, else d1's if d1 sets it, else s's, and the fields are those
\* of s, d1 and d2 together.
C4_MergeOverwrites ==
    mPc = 2 =>
        /\ DOMAIN mAcc = (DOMAIN mS) \cup (DOMAIN mD1) \cup (DOMAIN mD2)
        /\ \A f \in DOMAIN mAcc :
              mAcc[f] = IF f \in DOMAIN mD2 THEN mD2[f]
                        ELSE IF f \in DOMAIN mD1 THEN mD1[f]
                        ELSE mS[f]

C4_Witness ==
    /\ mPc = 2
    /\ \E f \in (DOMAIN mS) \cap (DOMAIN mD1) \cap (DOMAIN mD2) :
          /\ mS[f] # mD1[f]
          /\ mD1[f] # mD2[f]
          /\ mAcc[f] = mD2[f]
    /\ \E f \in DOMAIN mS : f \notin (DOMAIN mD1) \cup (DOMAIN mD2)

\* the positions, among the first n puts, of the puts to (ns, key)
PutsTo(ns, key, n) ==
    {i \in 1..n : kLog[i].ns = ns /\ kLog[i].key = key}

Latest(S) == CHOOSE i \in S : \A j \in S : j <= i

\* C10: a get returns the value of the most recent put to its namespace and
\* key, and nothing if there was no such put.
C10_LastWriterWins ==
    Len(kGot) > 0 =>
        LET g == kGot[1]
            puts == PutsTo(g.ns, g.key, g.at)
        IN  IF puts = {} THEN Len(g.result) = 0
            ELSE g.result = <<kLog[Latest(puts)].value>>

C10_Witness ==
    /\ Len(kGot) > 0
    /\ \E i, j \in PutsTo(kGot[1].ns, kGot[1].key, kGot[1].at) :
          /\ i < j
          /\ kLog[i].value # kLog[j].value
          /\ kGot[1].result = <<kLog[j].value>>

Last(seq) == seq[Len(seq)]

\* C19: the adapt node is entered only straight after an evaluate step that
\* left adaptation_needed true, and once it has returned, adapted_plan is
\* the model's answer to the "Improve this plan" prompt it appended (the
\* skip branch, which copies plan and appends nothing, is not taken).
C19_AdaptOnlyWhenNeeded ==
    /\ sNode = "adapt" =>
          /\ sState.adaptation_needed
          /\ Last(sVisited) = "evaluate"
    /\ (sNode = "execute" /\ Last(sVisited) = "adapt") =>
          LET n == Len(sState.messages)
          IN  /\ sState.adaptation_needed
              /\ n >= 2
              /\ sState.messages[n] = AIMessage(sState.adapted_plan)
              /\ sState.messages[n - 1].type = "human"
              /\ sState.messages[n - 1].content[1] = "Improve this plan for '"

C19_Witness ==
    /\ sNode = "execute"
    /\ Last(sVisited) = "adapt"
    /\ sState.adapted_plan # sState.plan
    /\ sState.messages[Len(sState.messages)] = AIMessage(sState.adapted_plan)

\* the static edges of an edge map, as pairs
StaticEdges(edgeMap) == { <<n, edgeMap[n]>> : n \in DOMAIN edgeMap }

\* the edges a Router on `node` may take, as pairs
RouterEdges(node, pathMap) == { <<node, pathMap[k]>> : k \in DOMAIN pathMap }

Succ(E, S) == { e[2] : e \in {x \in E : x[1] \in S} }

RECURSIVE ReachFrom(_, _, _)
ReachFrom(E, S, k) == IF k = 0 THEN S ELSE ReachFrom(E, S \cup Succ(E, S), k - 1)

\* n lies on a cycle of the edges E
OnCycle(E, n) == n \in ReachFrom(E, Succ(E, {n}), Cardinality(E))

Acyclic(E) == \A e \in E : ~OnCycle(E, e[1])

NoRepeat(seq) == \A i, j \in DOMAIN seq : seq[i] = seq[j] => i = j

C16_NoSilentDefault ==
    (rResult.op \in {"route", "adapt"} /\ "adaptation_needed" \notin DOMAIN rState)
        => rResult.raised # ""

\* C17: whenever a failure occurred in a run_agent_with_tool run, what its
\* caller observes is a failure, not a normal return.
C17_FailureReachesCaller ==
    \A i \in DOMAIN tTasks :
        (tTasks[i].pc = "done" /\ tTasks[i].failure) => tTasks[i].outcome = "raised"

\* C18: every tool call of the response, once the loop is past it, has
\* produced a result or an error; none is passed over with neither.
C18_UnknownToolReported ==
    \A i \in DOMAIN dLog : dLog[i].outcome \in {"result", "error"}

\* C20: running a node or the router changes no object that existed when
\* it was called: the state dict it received and every list, the messages
\* list included, keep their contents; the state dict changes only in the
\* executor's write of the returned dict.
C20_StepsDoNotMutate ==
    [][ ((hPc = "call" /\ hPc' = "merge") \/ hPc = "route") =>
            /\ \A d \in DOMAIN hDicts : hDicts'[d] = hDicts[d]
            /\ \A l \in DOMAIN hLists : hLists'[l] = hLists[l] ]_vars

C20_Witness ==
    /\ hPc = "merge"
    /\ hNode = "execute"
    /\ hDicts[hRet].messages # hDicts[hState].messages
    /\ Len(hLists[hDicts[hState].messages]) = 5
    /\ Len(hLists[hDicts[hRet].messages]) = 7

\* the plan inside the prompt of the execute node, the message before last
ExecutedPlan ==
    LET n == Len(sState.messages)
        c == sState.messages[n - 1].content
    IN  SubSeq(c, 4, Len(c) - 1)

\* C24: the plan the execute node puts in its prompt is adapted_plan when
\* that is non-empty and plan otherwise: on plan, evaluate, execute it is the
\* plan node's output (adapted_plan still empty), on the adapt path it is
\* the adapt node's output unless that output is empty, then the plan.
C24_ExecuteUsesAdaptedPlan ==
    sNode = END =>
        LET planOut == sState.messages[3].content
        IN  /\ ExecutedPlan = IF sState.adapted_plan # <<>>
                              THEN sState.adapted_plan ELSE sState.plan
            /\ sVisited = DirectPath =>
                  /\ sState.adapted_plan = <<>>
                  /\ ExecutedPlan = planOut
            /\ sVisited = AdaptPath =>
                  LET adaptOut == sState.messages[7].content
                  IN  ExecutedPlan = IF adaptOut = <<>> THEN planOut ELSE adaptOut

C24_Witness ==
    /\ sNode = END
    /\ sVisited = AdaptPath
    /\ sState.messages[7].content # <<>>
    /\ sState.messages[7].content # sState.messages[3].content
    /\ ExecutedPlan = sState.messages[7].content

\* the evaluate node has returned in this run
EvaluateDone ==
    \E i \in DOMAIN sVisited :
        sVisited[i] = "evaluate" /\ ~(sNode = "failed" /\ i = Len(sVisited))

\* C27: once evaluate has returned, plan_quality_score is 5 or 7,
\* adaptation_needed is true exactly when it is 5 and false exactly when
\* it is 7; the initial score 0 is gone.
C27_ScoreMatchesFlag ==
    EvaluateDone =>
        /\ sState.plan_quality_score \in {5, 7}
        /\ sState.adaptation_needed <=> sState.plan_quality_score = 5
        /\ ~sState.adaptation_needed <=> sState.plan_quality_score = 7

C27_Witness ==
    /\ sNode = "adapt"
    /\ sState.adaptation_needed
    /\ sState.plan_quality_score = 5

\* the messages a node adds when it returns
Added(node) == IF node = "plan" THEN 3 ELSE 2

\* a step of a node keeps the messages as a prefix and adds its messages
ExtendsMessages ==
    sNode \in {"plan", "evaluate", "adapt", "execute"} =>
        /\ IsPrefix(sState.messages, sState'.messages)
        /\ sNode' # "failed" =>
              Len(sState'.messages) = Len(sState.messages) + Added(sNode)

\* C28: every step of a run keeps the messages it found as a prefix of the
\* messages it leaves; a node that returns adds 3 messages if it is plan
\* and 2 otherwise; a completed run ends with 7 messages on plan,
\* evaluate, execute and with 9 on plan, evaluate, adapt, execute.
C28_MessagesAppendOnly ==
    /\ [][ExtendsMessages]_vars
    /\ [](sNode = END =>
              Len(sState.messages) = IF sVisited = AdaptPath THEN 9 ELSE 7)

C28_Witness ==
    /\ sNode = END
    /\ sVisited = AdaptPath
    /\ Len(sState.messages) = 9

\* what an invocation whose model calls all returned looks like at its end
CompletedShape ==
    /\ Len(sVisited) \in {3, 4}
    /\ NoRepeat(sVisited)
    /\ Last(sVisited) = "execute"
    /\ \A i \in 1..(Len(sVisited) - 1) : sVisited[i] # "execute"
    /\ sState.final_result = sState.execution_result

\* C29: an invocation in which no model call raises reaches END; at END it
\* has executed 3 or 4 nodes, none of them twice, execute once and last,
\* and final_result equals execution_result.
C29_Terminates ==
    /\ (sNode = entry_point) ~> (sNode = END \/ sNode = "failed")
    /\ [](sNode = END => CompletedShape)

C29_Witness ==
    /\ sNode = END
    /\ Len(sVisited) = 4
    /\ sState.final_result # <<>>
    /\ sState.final_result = sState.execution_result

\* the fields a node writes besides messages
OwnFields(node) ==
    CASE node = "plan"     -> {"plan"}
      [] node = "evaluate" -> {"plan_quality_score", "adaptation_needed"}
      [] node = "adapt"    -> {"adapted_plan"}
      [] node = "execute"  -> {"execution_result", "final_result"}

\* a step of a node changes none of the other fields
KeepsOtherFields ==
    sNode \in {"plan", "evaluate", "adapt", "execute"} =>
        /\ DOMAIN sState' = DOMAIN sState
        /\ \A f \in DOMAIN sState \ (OwnFields(sNode) \cup {"messages"}) :
              sState'[f] = sState[f]

\* C30: a node leaves every field other than its own fields and messages
\* as it found it; so topic is never changed by a node, plan stays the
\* output of the plan node and adaptation_needed stays what evaluate
\* derived from its evaluation.
C30_NodeWritesOwnFields ==
    /\ [][KeepsOtherFields]_vars
    /\ [](Len(sState.messages) >= 3 => sState.plan = sState.messages[3].content)
    /\ [](Len(sState.messages) >= 5 =>
              sState.adaptation_needed =
                 (\E i \in DOMAIN KEYWORDS :
                     Contains(KEYWORDS[i], lower(sState.messages[5].content))))

C30_Witness ==
    /\ sNode = END
    /\ sVisited = AdaptPath
    /\ sState.plan # <<>>
    /\ sState.adapted_plan # sState.plan
    /\ sState.plan = sState.messages[3].content

\* C23: a completed run of the plan/write graph has executed plan, then
\* write; write is only due when plan has returned; the plan in write's
\* prompt is the output of the plan node of this run.
C23_PlanThenWrite ==
    /\ wNode = END =>
          /\ wVisited = <<"plan", "write">>
          /\ LET c == wState.messages[4].content
             IN  SubSeq(c, 2, Len(c) - 3) = wState.messages[3].content
    /\ wNode = "write" =>
          /\ wVisited = <<"plan">>
          /\ wState.plan = wState.messages[3].content
    /\ (\E i \in DOMAIN wVisited : wVisited[i] = "write") =>
          wVisited[1] = "plan"

C23_Witness ==
    /\ wNode = END
    /\ wVisited = <<"plan", "write">>
    /\ wState.plan # <<>>
    /\ wState.messages[3] = AIMessage(wState.plan)

\* the put of a step that puts
PutOf == kLog'[Len(kLog')]

\* a put leaves get and search of every other namespace as they were
OtherNamespacesKept ==
    Len(kLog') > Len(kLog) =>
        \A p \in DOMAIN kStore :
            p[1] # PutOf.ns =>
                /\ get(kStore', p[1], p[2]) = get(kStore, p[1], p[2])
                /\ search(kStore', p[1]) = search(kStore, p[1])

C25_LoadsWhenRecordExists ==
    (Len(lSeen) > 0 /\ lSeen[1].op = "load") =>
        LET g == lSeen[1]
            puts == PutsTo(g.ns, "preferences", g.at)
        IN  /\ g.raised = ""
            /\ IF puts = {} THEN g.state = g.given
               ELSE /\ g.state.loaded_preferences = kLog[Latest(puts)].value
                    /\ Len(g.state.messages) = Len(g.given.messages) + 1
                    /\ g.state.messages[1].type = "system"
                    /\ Tail(g.state.messages) = g.given.messages

\* C26: for every query the tool returns a string: the predefined result
\* of the topic that equals the query in lower case if there is one, and
\* otherwise the default result built from the query as typed.
C26_SearchTotalCaseInsensitive ==
    Len(qResult) > 0 =>
        IF \E k \in DOMAIN predefined : k = lower(qQuery)
        THEN qResult = <<predefined[lower(qQuery)]>>
        ELSE qResult = <<default_result(qQuery)>>

C26_Witness ==
    /\ Len(qResult) > 0
    /\ qQuery # lower(qQuery)
    /\ lower(qQuery) = capital_of_france
    /\ qResult = <<predefined[capital_of_france]>>

\* a step changes the state of at most one coroutine, and none changes
\* agent_executor
OneRunAtATime ==
    /\ tExecutor' = tExecutor
    /\ \A i \in DOMAIN tTasks :
          tTasks'[i] # tTasks[i] => \A j \in DOMAIN tTasks \ {i} : tTasks'[j] = tTasks[j]

\* C22: the three gathered runs are independent: a step of one run changes
\* the state of no other run; gather has returned only when every run has
\* finished; the result at each position is the result of the run
\* submitted at that position, in whatever order the runs finished.
C22_GatherIndependentOrdered ==
    /\ [][OneRunAtATime]_vars
    /\ [](Len(tGather) > 0 =>
            /\ \A i \in DOMAIN tTasks : tTasks[i].pc = "done"
            /\ Len(tFinished) = Len(tasks)
            /\ Len(tGather) = Len(tasks)
            /\ \A i \in DOMAIN tGather :
                  /\ tGather[i].task = i
                  /\ tGather[i].value = tTasks[i].value
                  /\ tTasks[i].query = tasks[i])

C22_Witness ==
    /\ Len(tGather) > 0
    /\ tFinished = <<3, 1, 2>>
    /\ \A i \in DOMAIN tGather : tGather[i].task = i

====
